---- MODULE Spec2Model ----
(***************************************************************************)
(* Model of class Configuration (src/configuration.hpp): an INI-style      *)
(* section/key/value store with handler dispatch, backed by a text file.   *)
(* Strings are sequences of one-character strings; positions are 0-based   *)
(* as in std::string, with npos for "not found".                           *)
(***************************************************************************)
EXTENDS Integers, Sequences, FiniteSets, TLC

VARIABLES pc, data, logic, disk, other, calls, last, nops

vars == <<pc, data, logic, disk, other, calls, last, nops>>

(***************************************************************************)
(* Bounds of the model.                                                    *)
(***************************************************************************)
MaxFileLen == 4
MaxOps == 2

(***************************************************************************)
(* std::string                                                             *)
(***************************************************************************)
SP == " "
TAB == "\t"
NL == "\n"
Alphabet == {"a", SP, TAB, "=", "[", "]", "#", ";", NL}

npos == 2147483647

Min(a, b) == IF a < b THEN a ELSE b

\* str.find(c): 0-based position of the first c, npos when there is none
find(str, c) ==
    IF \E i \in 1..Len(str) : str[i] = c
    THEN (CHOOSE i \in 1..Len(str) : str[i] = c /\ \A j \in 1..(i-1) : str[j] # c) - 1
    ELSE npos

\* str.find_first_not_of(" \t")
find_first_not_of(str) ==
    IF \E i \in 1..Len(str) : str[i] \notin {SP, TAB}
    THEN (CHOOSE i \in 1..Len(str) :
             str[i] \notin {SP, TAB} /\ \A j \in 1..(i-1) : str[j] \in {SP, TAB}) - 1
    ELSE npos

\* str.find_last_not_of(" \t")
find_last_not_of(str) ==
    IF \E i \in 1..Len(str) : str[i] \notin {SP, TAB}
    THEN (CHOOSE i \in 1..Len(str) :
             str[i] \notin {SP, TAB} /\ \A j \in (i+1)..Len(str) : str[j] \in {SP, TAB}) - 1
    ELSE npos

\* str.substr(pos, n) and str.substr(pos)
substr(str, pos, n) == SubSeq(str, pos + 1, Min(pos + n, Len(str)))
substr_from(str, pos) == SubSeq(str, pos + 1, Len(str))

trim(str) ==
    LET start == find_first_not_of(str)
        end   == find_last_not_of(str)
    IN  IF start = npos \/ end = npos THEN <<>> ELSE substr(str, start, end - start + 1)

\* std::all_of(raw_value.begin(), raw_value.end(), [](char c) { return c == ' '; })
all_spaces(str) == \A i \in 1..Len(str) : str[i] = SP

(***************************************************************************)
(* The nested unordered_map section_to_key_to_value.                       *)
(***************************************************************************)
EmptyMap == [x \in {} |-> x]

assign_overwrite_only(m, section, key, value) ==
    IF section \in DOMAIN m /\ key \in DOMAIN m[section]
    THEN [s \in DOMAIN m |->
            IF s = section
            THEN [k \in DOMAIN m[s] |-> IF k = key THEN value ELSE m[s][k]]
            ELSE m[s]]
    ELSE m

\* m[section][key] = value  (operator[] creates the section and the key)
assign(m, section, key, value) ==
    [s \in (DOMAIN m) \cup {section} |->
        IF s = section
        THEN LET old == IF s \in DOMAIN m THEN m[s] ELSE EmptyMap
             IN  [k \in (DOMAIN old) \cup {key} |-> IF k = key THEN value ELSE old[k]]
        ELSE m[s]]

None == <<>>
Some(v) == <<v>>

get_value(m, section, key) ==
    IF section \notin DOMAIN m THEN None
    ELSE IF key \notin DOMAIN m[section] THEN None
    ELSE Some(m[section][key])

has_section(m, section) == section \in DOMAIN m

has_value(m, section, key) ==
    IF section \notin DOMAIN m THEN FALSE ELSE key \in DOMAIN m[section]

get_sections(m) == DOMAIN m

get_keys(m, section) == IF section \in DOMAIN m THEN DOMAIN m[section] ELSE {}

(***************************************************************************)
(* parse_config_file                                                       *)
(***************************************************************************)
\* the lines std::getline yields: split at '\n'; a last line without '\n'
\* is returned when it is not empty
RECURSIVE getlines(_)
getlines(content) ==
    IF Len(content) = 0 THEN <<>>
    ELSE LET p == find(content, NL)
         IN  IF p = npos THEN <<content>>
             ELSE <<substr(content, 0, p)>> \o getlines(substr_from(content, p + 1))

strip_comment(line) ==
    LET hash_pos      == find(line, "#")
        semicolon_pos == find(line, ";")
        comment_pos   == Min(hash_pos, semicolon_pos)
    IN  IF comment_pos # npos THEN substr(line, 0, comment_pos) ELSE line

parse_value_trim_always(raw_value) == trim(raw_value)

\* lines 174-183: the value of a key line
parse_value(raw_value) ==
    IF all_spaces(raw_value) THEN <<SP>> ELSE trim(raw_value)

parse_line_no_key_trim(st, raw) ==
    LET line == trim(strip_comment(raw))
    IN  IF Len(line) = 0 THEN st
        ELSE IF line[1] = "[" /\ line[Len(line)] = "]"
        THEN [st EXCEPT !.section = trim(substr(line, 1, Len(line) - 2))]
        ELSE LET delimiter_pos == find(line, "=")
             IN  IF delimiter_pos = npos THEN st
                 ELSE [st EXCEPT !.map = assign(st.map, st.section,
                                                substr(line, 0, delimiter_pos),
                                                parse_value(substr_from(line, delimiter_pos + 1)))]

\* one iteration of the while loop; st = [section |-> current_section, map |-> ...]
parse_line(st, raw) ==
    LET line == trim(strip_comment(raw))
    IN  IF Len(line) = 0 THEN st
        ELSE IF line[1] = "[" /\ line[Len(line)] = "]"
        THEN [st EXCEPT !.section = trim(substr(line, 1, Len(line) - 2))]
        ELSE LET delimiter_pos == find(line, "=")
             IN  IF delimiter_pos = npos THEN st
                 ELSE LET key       == trim(substr(line, 0, delimiter_pos))
                          raw_value == substr_from(line, delimiter_pos + 1)
                      IN  [st EXCEPT !.map = assign(st.map, st.section, key,
                                                    parse_value(raw_value))]

RECURSIVE parse_lines(_, _)
parse_lines(st, lines) ==
    IF Len(lines) = 0 THEN st
    ELSE parse_lines(parse_line(st, Head(lines)), Tail(lines))

\* parse_config_file on a store holding m; file = [exists, content]
parse_config_file(m, file) ==
    IF ~file.exists THEN m
    ELSE parse_lines([section |-> <<>>, map |-> m], getlines(file.content)).map

(***************************************************************************)
(* Iteration over the unordered maps: the order of the sections, and of    *)
(* the keys of each section, is unspecified.                               *)
(***************************************************************************)
Perms(S) == {f \in [1..Cardinality(S) -> S] : \A i, j \in 1..Cardinality(S) : f[i] = f[j] => i = j}

iterations(m) ==
    {[sections |-> so, keys |-> ko] :
        so \in Perms(DOMAIN m),
        ko \in {f \in [DOMAIN m -> UNION {Perms(DOMAIN m[s]) : s \in DOMAIN m}] :
                   \A s \in DOMAIN m : f[s] \in Perms(DOMAIN m[s])}}

Range(seq) == {seq[i] : i \in DOMAIN seq}

(***************************************************************************)
(* Handler dispatch.  logic maps a (section, key) pair to the behaviour of *)
(* its registered handler: "ok" returns, "throw" raises a std::exception.  *)
(* A dispatch yields the handler invocations made, in order, and whether   *)
(* an exception left the function.                                         *)
(***************************************************************************)
Behaviours == {"ok", "throw"}
EmptyLogic == [x \in {} |-> x]

\* the inner for loop of apply_config_logic over the keys ks of one section
RECURSIVE apply_keys(_, _, _, _)
apply_keys(m, lg, section, ks) ==
    IF Len(ks) = 0 THEN [invoked |-> <<>>, exc |-> FALSE]
    ELSE LET key  == Head(ks)
             call == <<section, key, m[section][key]>>
         IN  IF <<section, key>> \in DOMAIN lg
             THEN IF lg[<<section, key>>] = "throw"
                  THEN [invoked |-> <<call>>, exc |-> TRUE]
                  ELSE LET rest == apply_keys(m, lg, section, Tail(ks))
                       IN  [invoked |-> <<call>> \o rest.invoked, exc |-> rest.exc]
             ELSE apply_keys(m, lg, section, Tail(ks))

\* the outer for loop of apply_config_logic
RECURSIVE apply_sections(_, _, _, _)
apply_sections(m, lg, ss, ko) ==
    IF Len(ss) = 0 THEN [invoked |-> <<>>, exc |-> FALSE]
    ELSE LET first == apply_keys(m, lg, Head(ss), ko[Head(ss)])
         IN  IF first.exc THEN first
             ELSE LET rest == apply_sections(m, lg, Tail(ss), ko)
                  IN  [invoked |-> first.invoked \o rest.invoked, exc |-> rest.exc]

dispatch_all(m, lg, it) == apply_sections(m, lg, it.sections, it.keys)

\* apply_config_logic_for_key: the exception of a handler is caught here
dispatch_for_key(m, lg, section, key) ==
    LET value_opt == get_value(m, section, key)
    IN  IF value_opt = None THEN [invoked |-> <<>>, exc |-> FALSE]
        ELSE IF <<section, key>> \in DOMAIN lg
        THEN IF lg[<<section, key>>] = "throw"
             THEN [invoked |-> <<<<section, key, value_opt[1]>>>>, exc |-> FALSE]  \* caught
             ELSE [invoked |-> <<<<section, key, value_opt[1]>>>>, exc |-> FALSE]
        ELSE [invoked |-> <<>>, exc |-> FALSE]

\* the invocations of one operation, as a count for each (section, key, value)
CallBag(invoked) ==
    [t \in Range(invoked) |-> Cardinality({i \in DOMAIN invoked : invoked[i] = t})]

NoCalls == CallBag(<<>>)

(***************************************************************************)
(* Files.                                                                  *)
(***************************************************************************)
NoFile == [exists |-> FALSE, content |-> <<>>]
File(content) == [exists |-> TRUE, content |-> content]

RECURSIVE write_keys(_, _, _)
write_keys(m, section, ks) ==
    IF Len(ks) = 0 THEN <<>>
    ELSE Head(ks) \o <<SP, "=", SP>> \o m[section][Head(ks)] \o <<NL>>
         \o write_keys(m, section, Tail(ks))

RECURSIVE write_sections_no_header(_, _, _)
write_sections_no_header(m, ss, ko) ==
    IF Len(ss) = 0 THEN <<>>
    ELSE write_keys(m, Head(ss), ko[Head(ss)]) \o <<NL>>
         \o write_sections_no_header(m, Tail(ss), ko)

\* what save_to_file writes: the loop of lines 307-322
RECURSIVE write_sections(_, _, _)
write_sections(m, ss, ko) ==
    IF Len(ss) = 0 THEN <<>>
    ELSE <<"[">> \o Head(ss) \o <<"]", NL>>
         \o write_keys(m, Head(ss), ko[Head(ss)]) \o <<NL>>
         \o write_sections(m, Tail(ss), ko)

(***************************************************************************)
(* Inputs of the operations.                                               *)
(***************************************************************************)
Sections == {<<"s">>, <<>>}
Keys == {<<"k">>, <<"j">>}
Values == {<<"v">>, <<>>, <<SP>>, <<SP, "v">>, <<"v", "#">>, <<"v", NL, "j">>}
HandlerPairs == {<<<<"s">>, <<"k">>>>, <<<<"s">>, <<"j">>>>}
Paths == {"config", "other"}
Outcomes == {"ok", "open_fail", "write_fail"}

\* the files the store is constructed from
FileA == <<"[", "s", "]", NL,
           "k", SP, "=", SP, "v", SP, "#", "c", NL,
           "j", "=", "w", NL>>
FileB == <<"k", SP, "=", SP, "v", NL,
           ";", "c", NL,
           "[", SP, "s", "]", NL,
           "k", SP, "=", TAB, NL,
           "x", NL>>
InitFiles == {NoFile, File(FileA), File(FileB)}

\* the handlers handed to the constructor
InitLogics ==
    {EmptyLogic,
     [p \in HandlerPairs |-> "ok"],
     [p \in HandlerPairs |-> IF p[2] = <<"k">> THEN "throw" ELSE "ok"]}

Op(op, section, key, value, flag, ret, exc) ==
    [op |-> op, section |-> section, key |-> key, value |-> value,
     flag |-> flag, ret |-> ret, exc |-> exc]

(***************************************************************************)
(* The operations of the class.                                            *)
(***************************************************************************)
Init ==
    /\ pc = "new"
    /\ data = EmptyMap
    /\ logic \in InitLogics
    /\ disk \in InitFiles
    /\ other = NoFile
    /\ calls = NoCalls
    /\ last = Op("none", <<>>, <<>>, <<>>, FALSE, FALSE, FALSE)
    /\ nops = 0

\* the constructor; an exception leaving it means no object exists
Configuration(apply) ==
    /\ pc = "new"
    /\ LET m == parse_config_file(EmptyMap, disk)
       IN  /\ data' = m
           /\ \E it \in iterations(m) :
                LET r == IF apply THEN dispatch_all(m, logic, it)
                         ELSE [invoked |-> <<>>, exc |-> FALSE]
                IN  /\ calls' = CallBag(r.invoked)
                    /\ pc' = IF r.exc THEN "dead" ELSE "ready"
                    /\ last' = Op("construct", <<>>, <<>>, <<>>, apply, ~r.exc, r.exc)
    /\ UNCHANGED <<logic, disk, other, nops>>

reload_without_clear ==
    /\ pc = "ready" /\ nops < MaxOps
    /\ LET m == parse_config_file(data, disk)
           unsaved == data # parse_config_file(EmptyMap, disk)
       IN  /\ data' = m
           /\ \E it \in iterations(m) :
                LET r == dispatch_all(m, logic, it)
                IN  /\ calls' = CallBag(r.invoked)
                    /\ last' = Op("reload", <<>>, <<>>, <<>>, unsaved, ~r.exc, r.exc)
    /\ nops' = nops + 1
    /\ UNCHANGED <<pc, logic, disk, other>>

\* the flag of the record notes whether the store held changes the file lacks
reload_config_from_file ==
    /\ pc = "ready" /\ nops < MaxOps
    /\ LET m == parse_config_file(EmptyMap, disk)
           unsaved == data # parse_config_file(EmptyMap, disk)
       IN  /\ data' = m
           /\ \E it \in iterations(m) :
                LET r == dispatch_all(m, logic, it)
                IN  /\ calls' = CallBag(r.invoked)
                    /\ last' = Op("reload", <<>>, <<>>, <<>>, unsaved, ~r.exc, r.exc)
    /\ nops' = nops + 1
    /\ UNCHANGED <<pc, logic, disk, other>>

register_config_handler(section, key, behaviour) ==
    /\ pc = "ready" /\ nops < MaxOps
    /\ logic' = [p \in (DOMAIN logic) \cup {<<section, key>>} |->
                    IF p = <<section, key>> THEN behaviour ELSE logic[p]]
    /\ calls' = NoCalls
    /\ last' = Op("register", section, key, <<>>, FALSE, TRUE, FALSE)
    /\ nops' = nops + 1
    /\ UNCHANGED <<pc, data, disk, other>>

set_value(section, key, value, apply) ==
    /\ pc = "ready" /\ nops < MaxOps
    /\ LET m == assign(data, section, key, value)
           r == IF apply THEN dispatch_for_key(m, logic, section, key)
                ELSE [invoked |-> <<>>, exc |-> FALSE]
       IN  /\ data' = m
           /\ calls' = CallBag(r.invoked)
           /\ last' = Op("set", section, key, value, apply, ~r.exc, r.exc)
    /\ nops' = nops + 1
    /\ UNCHANGED <<pc, logic, disk, other>>

erase_no_prune(m, section, key) ==
    [s \in DOMAIN m |->
        IF s = section THEN [k \in (DOMAIN m[s]) \ {key} |-> m[s][k]] ELSE m[s]]

\* section_it->second.erase(key_it), then the erase of an empty section
erase(m, section, key) ==
    LET rest == (DOMAIN m[section]) \ {key}
    IN  IF rest = {}
        THEN [s \in (DOMAIN m) \ {section} |-> m[s]]
        ELSE [s \in DOMAIN m |->
                IF s = section THEN [k \in rest |-> m[s][k]] ELSE m[s]]

remove_value_whole_section(section, key) ==
    /\ pc = "ready" /\ nops < MaxOps
    /\ IF section \notin DOMAIN data \/ key \notin DOMAIN data[section]
       THEN /\ data' = data
            /\ last' = Op("remove", section, key, <<>>, FALSE, FALSE, FALSE)
       ELSE /\ data' = [s \in (DOMAIN data) \ {section} |-> data[s]]
            /\ last' = Op("remove", section, key, <<>>, FALSE, TRUE, FALSE)
    /\ calls' = NoCalls
    /\ nops' = nops + 1
    /\ UNCHANGED <<pc, logic, disk, other>>

remove_value(section, key) ==
    /\ pc = "ready" /\ nops < MaxOps
    /\ IF section \notin DOMAIN data \/ key \notin DOMAIN data[section]
       THEN /\ data' = data
            /\ last' = Op("remove", section, key, <<>>, FALSE, FALSE, FALSE)
       ELSE /\ data' = erase(data, section, key)
            /\ last' = Op("remove", section, key, <<>>, FALSE, TRUE, FALSE)
    /\ calls' = NoCalls
    /\ nops' = nops + 1
    /\ UNCHANGED <<pc, logic, disk, other>>

\* the public apply_config_logic
apply_config_logic ==
    /\ pc = "ready" /\ nops < MaxOps
    /\ \E it \in iterations(data) :
         LET r == dispatch_all(data, logic, it)
         IN  /\ calls' = CallBag(r.invoked)
             /\ last' = Op("apply_all", <<>>, <<>>, <<>>, FALSE, ~r.exc, r.exc)
    /\ nops' = nops + 1
    /\ UNCHANGED <<pc, data, logic, disk, other>>

\* the public apply_config_logic_for_key
apply_config_logic_for_key(section, key) ==
    /\ pc = "ready" /\ nops < MaxOps
    /\ LET r == dispatch_for_key(data, logic, section, key)
       IN  /\ calls' = CallBag(r.invoked)
           /\ last' = Op("apply_for", section, key, <<>>, FALSE, ~r.exc, r.exc)
    /\ nops' = nops + 1
    /\ UNCHANGED <<pc, data, logic, disk, other>>

\* a write error leaves a part of the text in the file
PartialWrites(text) == {SubSeq(text, 1, n) : n \in {0, Len(text) \div 2}}

\* save_to_file(path); save_to_file() is path = "config"
save_to_file(path, outcome) ==
    /\ pc = "ready" /\ nops < MaxOps
    /\ \E it \in iterations(data) :
         LET text == write_sections(data, it.sections, it.keys)
         IN  \E written \in IF outcome = "ok" THEN {text}
                            ELSE IF outcome = "write_fail" THEN PartialWrites(text)
                            ELSE {<<>>} :
               /\ IF outcome = "open_fail"
                  THEN UNCHANGED <<disk, other>>
                  ELSE IF path = "config"
                  THEN disk' = File(written) /\ other' = other
                  ELSE other' = File(written) /\ disk' = disk
               /\ last' = Op("save", <<>>, <<>>, <<path>>, FALSE, outcome = "ok", FALSE)
    /\ calls' = NoCalls
    /\ nops' = nops + 1
    /\ UNCHANGED <<pc, data, logic>>

backup_of_memory(fs_ok) ==
    /\ pc = "ready" /\ nops < MaxOps
    /\ \E it \in iterations(data) :
         IF fs_ok
         THEN /\ other' = File(write_sections(data, it.sections, it.keys))
              /\ last' = Op("backup", <<>>, <<>>, <<>>, fs_ok, TRUE, FALSE)
         ELSE /\ other' = other
              /\ last' = Op("backup", <<>>, <<>>, <<>>, fs_ok, FALSE, FALSE)
    /\ calls' = NoCalls
    /\ nops' = nops + 1
    /\ UNCHANGED <<pc, data, logic, disk>>

\* backup_config(backup_path): copy_file throws when the source is missing or
\* the file system refuses (fs_ok false)
backup_config(fs_ok) ==
    /\ pc = "ready" /\ nops < MaxOps
    /\ IF disk.exists /\ fs_ok
       THEN /\ other' = disk
            /\ last' = Op("backup", <<>>, <<>>, <<>>, fs_ok, TRUE, FALSE)
       ELSE /\ other' = other
            /\ last' = Op("backup", <<>>, <<>>, <<>>, fs_ok, FALSE, FALSE)
    /\ calls' = NoCalls
    /\ nops' = nops + 1
    /\ UNCHANGED <<pc, data, logic, disk>>

Next ==
    \/ \E apply \in BOOLEAN : Configuration(apply)
    \/ reload_config_from_file
    \/ \E p \in HandlerPairs, b \in Behaviours : register_config_handler(p[1], p[2], b)
    \/ \E s \in Sections, k \in Keys, v \in Values, apply \in BOOLEAN : set_value(s, k, v, apply)
    \/ \E s \in Sections, k \in Keys : remove_value(s, k)
    \/ apply_config_logic
    \/ \E s \in Sections, k \in Keys : apply_config_logic_for_key(s, k)
    \/ \E path \in Paths, outcome \in Outcomes : save_to_file(path, outcome)
    \/ \E fs_ok \in BOOLEAN : backup_config(fs_ok)

Spec == Init /\ [][Next]_vars

(***************************************************************************)
(* Parsing alone: the store constructed from every file whose free text    *)
(* has at most MaxFileLen characters.                                      *)
(***************************************************************************)
RECURSIVE Strings(_)
Strings(n) ==
    IF n = 0 THEN {<<>>}
    ELSE LET shorter == Strings(n - 1)
         IN  shorter \cup {Append(s, c) : s \in {x \in shorter : Len(x) = n - 1}, c \in Alphabet}

\* a file is a free text between a fixed first and a fixed last part
Frames ==
    {<<<<>>, <<>>>>,
     <<<<"[", "a", "]", NL>>, <<>>>>,
     <<<<>>, <<NL, "a", "=", "a">>>>}

ParseInit ==
    /\ pc = "new"
    /\ data = EmptyMap
    /\ logic = EmptyLogic
    /\ disk \in {File(f[1] \o c \o f[2]) : f \in Frames, c \in Strings(MaxFileLen)}
    /\ other = NoFile
    /\ calls = NoCalls
    /\ last = Op("none", <<>>, <<>>, <<>>, FALSE, FALSE, FALSE)
    /\ nops = 0

ParseNext == \E apply \in BOOLEAN : Configuration(apply)

ParseSpec == ParseInit /\ [][ParseNext]_vars

(***************************************************************************)
(* Properties.                                                             *)
(***************************************************************************)
StoredPairs(m) == {<<s, k>> : s \in DOMAIN m, k \in UNION {DOMAIN m[x] : x \in DOMAIN m}}

C2_Remove ==
    [][last'.op = "remove" =>
        LET s == last'.section
            k == last'.key
        IN  IF get_value(data, s, k) = None
            THEN ~last'.ret /\ data' = data
            ELSE /\ last'.ret
                 /\ get_value(data', s, k) = None
                 /\ \A p \in StoredPairs(data) \cup StoredPairs(data') :
                        p # <<s, k>> => get_value(data', p[1], p[2]) = get_value(data, p[1], p[2])
                 /\ (get_keys(data, s) = {k} => ~has_section(data', s))]_vars

\* a successful removal that leaves another key in the section
C2_Witness ==
    /\ last.op = "remove"
    /\ last.ret
    /\ get_keys(data, last.section) # {}
    /\ Cardinality(DOMAIN data) = 2

\* the file the last save_to_file wrote
SavedFile == IF last.value = <<"config">> THEN disk ELSE other

NoneOf(str, chars) == \A i \in 1..Len(str) : str[i] \notin chars

Escapes == {"=", "[", "]", "#", ";"}

PlainStore(m) ==
    \A s \in DOMAIN m :
        /\ NoneOf(s, Escapes)
        /\ \A k \in DOMAIN m[s] : NoneOf(k, Escapes) /\ NoneOf(m[s][k], Escapes)

\* C3 as claimed: a store whose names and values hold none of = [ ] # ; is
\* equal to the store constructed from the file a successful save wrote.
C3_AsClaimed ==
    (last.op = "save" /\ last.ret /\ PlainStore(data)) =>
        parse_config_file(EmptyMap, SavedFile) = data

Bare(str) == NoneOf(str, Escapes \cup {NL}) /\ trim(str) = str

RoundTripStore(m) ==
    \A s \in DOMAIN m :
        /\ Bare(s)
        /\ \A k \in DOMAIN m[s] :
              /\ Bare(k)
              /\ Bare(m[s][k]) \/ m[s][k] = <<SP>>
              /\ m[s][k] # <<>>

\* C3: a store whose names and values hold none of = [ ] # ; and no line
\* break, whose names have no space or tab at either end, and whose values are
\* each a single space or a non-empty text with no space or tab at either end,
\* is equal to the store constructed from the file a successful save wrote.
C3_RoundTrip ==
    (last.op = "save" /\ last.ret /\ RoundTripStore(data)) =>
        parse_config_file(EmptyMap, SavedFile) = data

\* a successful save of a store of two sections, one of them the unnamed
\* section, holding a single-space value
C3_Witness ==
    /\ last.op = "save"
    /\ last.ret
    /\ RoundTripStore(data)
    /\ DOMAIN data = {<<>>, <<"s">>}
    /\ \E s \in DOMAIN data : \E k \in DOMAIN data[s] : data[s][k] = <<SP>>

\* C4: after reload_config_from_file the mapping is exactly what parsing the
\* file at the original path gives, whatever was changed in memory before.
C4_Reload ==
    last.op = "reload" =>
        /\ data = parse_config_file(EmptyMap, disk)
        /\ \A p \in StoredPairs(data) \cup (Sections \X Keys) :
              get_value(data, p[1], p[2]) = get_value(parse_config_file(EmptyMap, disk), p[1], p[2])

\* a reload that discarded changes made in memory only
C4_Witness ==
    /\ last.op = "reload"
    /\ last.flag
    /\ data # EmptyMap

Invoked(section, key) ==
    {t \in DOMAIN calls : t[1] = section /\ t[2] = key}

\* C5: a handler that throws during apply_config_logic is contained: nothing
\* propagates to the caller (constructor and reload included) and every pair
\* of the mapping with a registered handler is still invoked.
C5_Contained ==
    (last.op \in {"construct", "reload", "apply_all"} /\ (last.op = "construct" => last.flag)) =>
        /\ ~last.exc
        /\ \A s \in DOMAIN data : \A k \in DOMAIN data[s] :
              <<s, k>> \in DOMAIN logic => <<s, k, data[s][k]>> \in DOMAIN calls

\* C6: one apply_config_logic invokes the handler of every pair of the mapping
\* that has one exactly once with the pair's value, invokes nothing else, and
\* leaves every value stored.
C6_ApplyAll ==
    [][last'.op = "apply_all" =>
        /\ data' = data
        /\ \A s \in DOMAIN data : \A k \in DOMAIN data[s] :
              IF <<s, k>> \in DOMAIN logic
              THEN /\ Invoked(s, k)' = {<<s, k, data[s][k]>>}
                   /\ calls'[<<s, k, data[s][k]>>] = 1
              ELSE Invoked(s, k)' = {}
        /\ \A t \in DOMAIN calls' : get_value(data, t[1], t[2]) # None]_vars

\* C7: backup_config copies the file at the original path, not the store:
\* it leaves the mapping and that file unchanged, a successful backup holds
\* the file's contents, and a file system failure returns false.
C7_Backup ==
    [][last'.op = "backup" =>
        /\ data' = data
        /\ disk' = disk
        /\ last'.ret => (other'.exists /\ other'.content = disk.content)
        /\ (~last'.flag \/ ~disk.exists) => (~last'.ret /\ other' = other)]_vars

\* a successful backup taken while the store holds changes the file lacks
C7_Witness ==
    /\ last.op = "backup"
    /\ last.ret
    /\ other = disk
    /\ parse_config_file(EmptyMap, disk) # data

\* the last line of the file, and what the parse step makes of it
Lines == getlines(disk.content)
LastLine == strip_comment(Lines[Len(Lines)])
IsKeyLine(body) ==
    LET line == trim(body)
    IN  /\ Len(line) > 0
        /\ ~(line[1] = "[" /\ line[Len(line)] = "]")
        /\ find(line, "=") # npos
ValuePart(body) == substr_from(body, find(body, "=") + 1)
KeyPart(body) == trim(substr(body, 0, find(body, "=")))
SectionAtLastLine ==
    parse_lines([section |-> <<>>, map |-> EmptyMap], SubSeq(Lines, 1, Len(Lines) - 1)).section
StoredForLastLine == get_value(data, SectionAtLastLine, KeyPart(LastLine))

\* C8 as claimed: a value part of spaces only is stored as " ", a value part
\* of tabs only is stored as the empty string.
C8_AsClaimed ==
    (pc = "ready" /\ Len(Lines) > 0 /\ IsKeyLine(LastLine)) =>
        LET vp == ValuePart(LastLine)
        IN  /\ (vp # <<>> /\ NoneOf(vp, Alphabet \ {SP})) => StoredForLastLine = Some(<<SP>>)
            /\ (vp # <<>> /\ NoneOf(vp, Alphabet \ {TAB})) => StoredForLastLine = Some(<<>>)

\* C8: a value part of spaces only is stored as " ", and so is a value part
\* of tabs only, of spaces and tabs, or of nothing; no parsed value is the
\* empty string.
C8_Whitespace ==
    pc = "ready" =>
        /\ (Len(Lines) > 0 /\ IsKeyLine(LastLine)) =>
              LET vp == ValuePart(LastLine)
              IN  NoneOf(vp, Alphabet \ {SP, TAB}) => StoredForLastLine = Some(<<SP>>)
        /\ \A s \in DOMAIN data : \A k \in DOMAIN data[s] : data[s][k] # <<>>

\* a key line of a named section whose value part is two tabs
C8_Witness ==
    /\ pc = "ready"
    /\ Len(Lines) > 0
    /\ IsKeyLine(LastLine)
    /\ ValuePart(LastLine) = <<TAB, TAB>>
    /\ SectionAtLastLine = <<"a">>
    /\ KeyPart(LastLine) # <<>>

ParsedNames == (DOMAIN data) \cup UNION {DOMAIN data[s] : s \in DOMAIN data}

\* C9 as claimed: every section name and key the parse step records has no
\* space or tab at either end, none of [ ] = and no leading # or ;.
C9_AsClaimed ==
    pc = "ready" =>
        \A n \in ParsedNames :
            /\ trim(n) = n
            /\ NoneOf(n, {"[", "]", "="})
            /\ n # <<>> => n[1] \notin {"#", ";"}

\* C9: every section name and key the parse step records has no space or tab
\* at either end and no # or ; anywhere, and no key holds an =.
C9_Names ==
    pc = "ready" =>
        /\ \A n \in ParsedNames : trim(n) = n /\ NoneOf(n, {"#", ";"})
        /\ \A s \in DOMAIN data : \A k \in DOMAIN data[s] : NoneOf(k, {"="})

\* a section named = holding a key, parsed from a file with spaces and tabs
\* around a name
C9_Witness ==
    /\ pc = "ready"
    /\ <<"=">> \in DOMAIN data
    /\ \E i \in 1..Len(disk.content) : disk.content[i] \in {SP, TAB}

HeaderLines(file) ==
    LET ls == getlines(file.content)
    IN  {i \in 1..Len(ls) : ls[i] # <<>> /\ ls[i][1] = "["}

\* C10: no section of the mapping has an empty key set: has_section(s) is
\* true exactly when get_keys(s) is not empty, and every section header a
\* save writes is followed by a key line.
C10_NoEmptySection ==
    /\ \A s \in (DOMAIN data) \cup Sections : has_section(data, s) <=> get_keys(data, s) # {}
    /\ (last.op = "save" /\ last.ret) =>
          LET ls == getlines(SavedFile.content)
          IN  \A i \in HeaderLines(SavedFile) :
                  i < Len(ls) /\ ls[i + 1] # <<>> /\ ls[i + 1][1] # "["

\* the removal of the last key of a section, another section remaining
C10_Witness ==
    /\ last.op = "remove"
    /\ last.ret
    /\ ~has_section(data, last.section)
    /\ data # EmptyMap

====
